---------------------------- MODULE Spec2Model ----------------------------
(***************************************************************************)
(* Model of basic.py: a hand-written scanner (Lexer), a recursive-descent  *)
(* parser (Parser), the run() pipeline and the read-eval-print loop.       *)
(*                                                                         *)
(* Encoding conventions                                                    *)
(*   - a text is a sequence of one-character strings; cursors (pos,        *)
(*     tok_idx) are zero-based as in the Python code, so the element under *)
(*     cursor i is seq[i + 1];                                             *)
(*   - Python's None is NoneChar for characters and None for objects;      *)
(*   - a float value is the pair <<m, e>> standing for m / 10^e with the   *)
(*     trailing zeros of the fraction removed, so "1." and "1.0" denote    *)
(*     the same value as they do in Python.                                *)
(***************************************************************************)
EXTENDS Integers, Sequences, FiniteSets, TLC

VARIABLES
    pc,        \* position of the program: prompt / lex / lexed / parse / parsed / crashed / exited
    text,      \* Lexer.text
    pos,       \* Lexer.pos
    tokens,    \* the token list being built by make_tokens, then Parser.tokens
    error,     \* the error returned by make_tokens (None when there is none)
    tok_idx,   \* Parser.tok_idx
    result,    \* how Parser.parse ended: the returned AST or the raised exception
    entered,   \* history: the cursor values at which Parser.factor was entered
    output     \* first line the driver printed for the last line it handled

vars == <<pc, text, pos, tokens, error, tok_idx, result, entered, output>>

----------------------------------------------------------------------------
(* Bounds *)

MaxLen == 4          \* longest text given to the Lexer on its own
MaxLine == 3         \* longest line typed at the prompt
MaxToks == 5         \* longest token sequence over every token kind
MaxDeepToks == 7     \* longest token sequence over the nesting kinds

----------------------------------------------------------------------------
(* Constants of basic.py *)

DIGITS == {"0", "1", "2", "3", "4", "5", "6", "7", "8", "9"}

LOWERCASE == <<"a", "b", "c", "d", "e", "f", "g", "h", "i", "j", "k", "l", "m",
               "n", "o", "p", "q", "r", "s", "t", "u", "v", "w", "x", "y", "z">>

UPPERCASE == <<"A", "B", "C", "D", "E", "F", "G", "H", "I", "J", "K", "L", "M",
               "N", "O", "P", "Q", "R", "S", "T", "U", "V", "W", "X", "Y", "Z">>

LETTERS == {LOWERCASE[i] : i \in 1..26} \cup {UPPERCASE[i] : i \in 1..26} \cup {"_"}

TT_INT == "INT"
TT_FLOAT == "FLOAT"
TT_PLUS == "PLUS"
TT_MINUS == "MINUS"
TT_MUL == "MUL"
TT_DIV == "DIV"
TT_LPAREN == "LPAREN"
TT_RPAREN == "RPAREN"
TT_EQ == "EQ"
TT_IDENTIFIER == "IDENTIFIER"

None == [kind |-> "None"]
NoneChar == "None"

----------------------------------------------------------------------------
(* Token and Error classes *)

\* Token(type_): value keeps its default None, encoded as an absent field
Token(type_) == [type |-> type_]

\* Token(type_, value)
TokenWith(type_, value) == [type |-> type_, value |-> value]

Error(p, details) == [pos |-> p, details |-> details]

IllegalCharError(p, char) == Error(p, "Illegal character '" \o char \o "'")

as_string(err) == "Error at position " \o ToString(err.pos) \o ": " \o err.details

----------------------------------------------------------------------------
(* Lexer *)

\* the character Lexer.advance leaves in current_char when the cursor is p
current_char_at(txt, p) == IF p < Len(txt) THEN txt[p + 1] ELSE NoneChar

current_char == current_char_at(text, pos)

DigitVal(c) ==
    CASE c = "0" -> 0 [] c = "1" -> 1 [] c = "2" -> 2 [] c = "3" -> 3
      [] c = "4" -> 4 [] c = "5" -> 5 [] c = "6" -> 6 [] c = "7" -> 7
      [] c = "8" -> 8 [] c = "9" -> 9

RECURSIVE int(_)
\* int(num_str) for a string of decimal digits
int(num_str) ==
    IF num_str = <<>> THEN 0
    ELSE int(SubSeq(num_str, 1, Len(num_str) - 1)) * 10 + DigitVal(num_str[Len(num_str)])

RECURSIVE Normalise(_, _)
Normalise(m, e) == IF e > 0 /\ m % 10 = 0 THEN Normalise(m \div 10, e - 1) ELSE <<m, e>>

\* float(num_str) for digits with exactly one '.' that is not the first character
float(num_str) ==
    LET d == CHOOSE i \in 1..Len(num_str) : num_str[i] = "."
        whole == SubSeq(num_str, 1, d - 1)
        frac == SubSeq(num_str, d + 1, Len(num_str))
    IN Normalise(int(whole \o frac), Len(frac))

RECURSIVE make_number_loop(_, _, _, _)
\* the while loop of make_number: the run consumed, its dots, the cursor after it
make_number_loop(txt, p, num_str, dot_count) ==
    LET c == current_char_at(txt, p) IN
    IF c # NoneChar /\ c \in DIGITS \cup {"."}
    THEN IF c = "."
         THEN IF dot_count = 1
              THEN [num_str |-> num_str, dot_count |-> dot_count, pos |-> p]
              ELSE make_number_loop(txt, p + 1, Append(num_str, "."), dot_count + 1)
         ELSE make_number_loop(txt, p + 1, Append(num_str, c), dot_count)
    ELSE [num_str |-> num_str, dot_count |-> dot_count, pos |-> p]

RECURSIVE make_number_loop_2dots(_, _, _, _)
make_number_loop_2dots(txt, p, num_str, dot_count) ==
    LET c == current_char_at(txt, p) IN
    IF c # NoneChar /\ c \in DIGITS \cup {"."}
    THEN IF c = "."
         THEN IF dot_count = 2
              THEN [num_str |-> num_str, dot_count |-> dot_count, pos |-> p]
              ELSE make_number_loop_2dots(txt, p + 1, Append(num_str, "."), dot_count + 1)
         ELSE make_number_loop_2dots(txt, p + 1, Append(num_str, c), dot_count)
    ELSE [num_str |-> num_str, dot_count |-> dot_count, pos |-> p]

\* a make_number whose run only stops at a third decimal point
make_number_2dots(txt, p) ==
    LET run == make_number_loop_2dots(txt, p, <<>>, 0) IN
    [tok |-> IF run.dot_count = 0
             THEN TokenWith(TT_INT, int(run.num_str))
             ELSE TokenWith(TT_FLOAT, <<0, 0>>),
     pos |-> run.pos]

\* make_number started with the cursor at p: the token and the cursor after it
make_number(txt, p) ==
    LET run == make_number_loop(txt, p, <<>>, 0) IN
    [tok |-> IF run.dot_count = 0
             THEN TokenWith(TT_INT, int(run.num_str))
             ELSE TokenWith(TT_FLOAT, float(run.num_str)),
     pos |-> run.pos]

RECURSIVE make_identifier_loop(_, _, _)
make_identifier_loop(txt, p, id_str) ==
    LET c == current_char_at(txt, p) IN
    IF c # NoneChar /\ c \in LETTERS \cup DIGITS
    THEN make_identifier_loop(txt, p + 1, id_str \o c)
    ELSE [id_str |-> id_str, pos |-> p]

\* make_identifier started with the cursor at p
make_identifier(txt, p) ==
    LET run == make_identifier_loop(txt, p, "") IN
    [tok |-> TokenWith(TT_IDENTIFIER, run.id_str), pos |-> run.pos]

\* the single-character branches of make_tokens
SYMBOLS == {"+", "-", "*", "/", "=", "(", ")"}

SymbolType(c) ==
    CASE c = "+" -> TT_PLUS [] c = "-" -> TT_MINUS [] c = "*" -> TT_MUL
      [] c = "/" -> TT_DIV [] c = "=" -> TT_EQ [] c = "(" -> TT_LPAREN
      [] c = ")" -> TT_RPAREN

WHITESPACE == {" ", "\t"}

UnchangedParser == UNCHANGED <<tok_idx, result, entered, output>>

\* make_tokens, one action per branch of its while loop
SkipWhitespace ==
    /\ pc = "lex"
    /\ current_char \in WHITESPACE
    /\ pos' = pos + 1
    /\ UNCHANGED <<pc, text, tokens, error>>
    /\ UnchangedParser

ScanNumber ==
    /\ pc = "lex"
    /\ current_char \in DIGITS
    /\ LET r == make_number(text, pos) IN
         /\ tokens' = Append(tokens, r.tok)
         /\ pos' = r.pos
    /\ UNCHANGED <<pc, text, error>>
    /\ UnchangedParser

ScanIdentifier ==
    /\ pc = "lex"
    /\ current_char \in LETTERS
    /\ LET r == make_identifier(text, pos) IN
         /\ tokens' = Append(tokens, r.tok)
         /\ pos' = r.pos
    /\ UNCHANGED <<pc, text, error>>
    /\ UnchangedParser

ScanSymbol ==
    /\ pc = "lex"
    /\ current_char \in SYMBOLS
    /\ tokens' = Append(tokens, Token(SymbolType(current_char)))
    /\ pos' = pos + 1
    /\ UNCHANGED <<pc, text, error>>
    /\ UnchangedParser

\* a ScanIllegal that hands back the tokens scanned so far
ScanIllegal_partial ==
    /\ pc = "lex"
    /\ current_char \notin {NoneChar} \cup WHITESPACE \cup DIGITS \cup LETTERS \cup SYMBOLS
    /\ tokens' = tokens
    /\ error' = IllegalCharError(pos, current_char)
    /\ pos' = pos + 1
    /\ pc' = "lexed"
    /\ UNCHANGED text
    /\ UnchangedParser

ScanIllegal ==
    /\ pc = "lex"
    /\ current_char \notin {NoneChar} \cup WHITESPACE \cup DIGITS \cup LETTERS \cup SYMBOLS
    /\ tokens' = <<>>
    /\ error' = IllegalCharError(pos, current_char)
    /\ pos' = pos + 1
    /\ pc' = "lexed"
    /\ UNCHANGED text
    /\ UnchangedParser

ScanEnd ==
    /\ pc = "lex"
    /\ current_char = NoneChar
    /\ pc' = "lexed"
    /\ UNCHANGED <<text, pos, tokens, error>>
    /\ UnchangedParser

make_tokens ==
    \/ SkipWhitespace
    \/ ScanNumber
    \/ ScanIdentifier
    \/ ScanSymbol
    \/ ScanIllegal
    \/ ScanEnd

----------------------------------------------------------------------------
(* The Lexer on its own: every text up to MaxLen over Alphabet *)

Alphabet == {" ", "\t", "0", "1", ".", "x", "+", "-", "*", "/", "=", "(", ")", "@"}

Texts(n) == UNION {[1..k -> Alphabet] : k \in 0..n}

InitLexer ==
    /\ text \in Texts(MaxLen)
    /\ pos = 0
    /\ tokens = <<>>
    /\ error = None
    /\ pc = "lex"
    /\ tok_idx = 0
    /\ result = None
    /\ entered = <<>>
    /\ output = ""

SpecLexer == InitLexer /\ [][make_tokens]_vars

----------------------------------------------------------------------------
(* AST nodes *)

NumberNode(tok) == [kind |-> "NumberNode", tok |-> tok]

VarAccessNode(var_name_tok) == [kind |-> "VarAccessNode", var_name_tok |-> var_name_tok]

VarAssignNode(var_name_tok, value_node) ==
    [kind |-> "VarAssignNode", var_name_tok |-> var_name_tok, value_node |-> value_node]

BinOpNode(left_node, op_tok, right_node) ==
    [kind |-> "BinOpNode", left_node |-> left_node, op_tok |-> op_tok,
     right_node |-> right_node]

----------------------------------------------------------------------------
(* Token.__repr__, used by the message of factor's exception *)

RECURSIVE Pow10(_)
Pow10(e) == IF e = 0 THEN 1 ELSE 10 * Pow10(e - 1)

RECURSIVE FracDigits(_, _)
FracDigits(m, e) == IF e = 0 THEN "" ELSE FracDigits(m \div 10, e - 1) \o ToString(m % 10)

\* repr of a float <<m, e>> in the range where Python prints positional digits
float_repr(v) ==
    ToString(v[1] \div Pow10(v[2])) \o "."
        \o (IF v[2] = 0 THEN "0" ELSE FracDigits(v[1] % Pow10(v[2]), v[2]))

Token_repr(tok) ==
    IF "value" \in DOMAIN tok
    THEN tok.type \o ":" \o (CASE tok.type = TT_INT -> ToString(tok.value)
                               [] tok.type = TT_FLOAT -> float_repr(tok.value)
                               [] OTHER -> tok.value)
    ELSE tok.type

----------------------------------------------------------------------------
(* Parser.  Every method is an operator of the token list and the cursor   *)
(* it starts at; it yields how the method ended (a returned node or a      *)
(* raised exception), the cursor it left, and the history h of the cursor  *)
(* values at which factor has been entered so far.                         *)

\* the token Parser.advance leaves in current_tok when the cursor is i
current_tok_at(toks, i) == IF i < Len(toks) THEN toks[i + 1] ELSE None

Return(node, i, h) == [st |-> "return", node |-> node, idx |-> i, entered |-> h]

Raise(exc, msg, i, h) == [st |-> "raise", exc |-> exc, msg |-> msg, idx |-> i, entered |-> h]

EXPECTED_RPAREN == "Expected ')'"

UnexpectedToken(tok) == "Unexpected token: " \o Token_repr(tok)

\* what Python raises for tok.type when tok is None
NoneTypeFault == "'NoneType' object has no attribute 'type'"

RECURSIVE expr(_, _, _), term(_, _, _), factor(_, _, _)
RECURSIVE bin_op(_, _, _, _, _), bin_op_loop(_, _, _, _, _, _), call(_, _, _, _)

\* func(): the bound method handed to bin_op
call(func, toks, i, h) ==
    IF func = "term" THEN term(toks, i, h) ELSE factor(toks, i, h)

\* the while loop of bin_op, entered with the running left node
bin_op_loop(func, ops, toks, left, i, h) ==
    LET op_tok == current_tok_at(toks, i) IN
    IF op_tok # None /\ op_tok.type \in ops
    THEN LET right == call(func, toks, i + 1, h) IN
         IF right.st = "raise" THEN right
         ELSE bin_op_loop(func, ops, toks, BinOpNode(left, op_tok, right.node),
                          right.idx, right.entered)
    ELSE Return(left, i, h)

bin_op(func, ops, toks, i, h) ==
    LET left == call(func, toks, i, h) IN
    IF left.st = "raise" THEN left
    ELSE bin_op_loop(func, ops, toks, left.node, left.idx, left.entered)

\* a factor that takes the inner expr whether or not an RParen closes it
factor_lenient(toks, i, h) ==
    LET tok == current_tok_at(toks, i)
        here == Append(h, i)
    IN
    IF tok = None THEN Raise("AttributeError", NoneTypeFault, i, here)
    ELSE IF tok.type \in {TT_INT, TT_FLOAT} THEN Return(NumberNode(tok), i + 1, here)
    ELSE IF tok.type = TT_IDENTIFIER THEN Return(VarAccessNode(tok), i + 1, here)
    ELSE IF tok.type = TT_LPAREN
         THEN LET e == expr(toks, i + 1, here) IN
              IF e.st = "raise" THEN e
              ELSE IF current_tok_at(toks, e.idx) # None
                        /\ current_tok_at(toks, e.idx).type = TT_RPAREN
                   THEN Return(e.node, e.idx + 1, e.entered)
                   ELSE Return(e.node, e.idx, e.entered)
    ELSE Raise("Exception", UnexpectedToken(tok), i, here)

factor(toks, i, h) ==
    LET tok == current_tok_at(toks, i)
        here == Append(h, i)
    IN
    IF tok = None THEN Raise("AttributeError", NoneTypeFault, i, here)
    ELSE IF tok.type \in {TT_INT, TT_FLOAT} THEN Return(NumberNode(tok), i + 1, here)
    ELSE IF tok.type = TT_IDENTIFIER THEN Return(VarAccessNode(tok), i + 1, here)
    ELSE IF tok.type = TT_LPAREN
         THEN LET e == expr(toks, i + 1, here) IN
              IF e.st = "raise" THEN e
              ELSE IF current_tok_at(toks, e.idx) # None
                        /\ current_tok_at(toks, e.idx).type = TT_RPAREN
                   THEN Return(e.node, e.idx + 1, e.entered)
                   ELSE Raise("Exception", EXPECTED_RPAREN, e.idx, e.entered)
    ELSE Raise("Exception", UnexpectedToken(tok), i, here)

\* a term that folds the additive operators too
term_flat(toks, i, h) ==
    bin_op("factor", {TT_MUL, TT_DIV, TT_PLUS, TT_MINUS}, toks, i, h)

term(toks, i, h) == bin_op("factor", {TT_MUL, TT_DIV}, toks, i, h)

expr(toks, i, h) == bin_op("term", {TT_PLUS, TT_MINUS}, toks, i, h)

\* a statement that starts the value expression on the Eq
statement_noskip(toks, i, h) ==
    IF current_tok_at(toks, i).type = TT_IDENTIFIER
    THEN LET var_name == current_tok_at(toks, i) IN
         IF current_tok_at(toks, i + 1) # None /\ current_tok_at(toks, i + 1).type = TT_EQ
         THEN LET e == expr(toks, i + 1, h) IN
              IF e.st = "raise" THEN e
              ELSE Return(VarAssignNode(var_name, e.node), e.idx, e.entered)
         ELSE expr(toks, i + 1, h)
    ELSE expr(toks, i, h)

statement(toks, i, h) ==
    IF current_tok_at(toks, i).type = TT_IDENTIFIER
    THEN LET var_name == current_tok_at(toks, i) IN
         IF current_tok_at(toks, i + 1) # None /\ current_tok_at(toks, i + 1).type = TT_EQ
         THEN LET e == expr(toks, i + 2, h) IN
              IF e.st = "raise" THEN e
              ELSE Return(VarAssignNode(var_name, e.node), e.idx, e.entered)
         ELSE expr(toks, i + 1, h)
    ELSE expr(toks, i, h)

\* Parser.parse on a freshly constructed Parser (cursor 0)
parse(toks) ==
    IF current_tok_at(toks, 0) = None THEN Return(None, 0, <<>>)
    ELSE statement(toks, 0, <<>>)

\* what the caller of parse sees: the node returned or the exception raised
Outcome(r) ==
    IF r.st = "return" THEN [st |-> "return", node |-> r.node]
    ELSE [st |-> "raise", exc |-> r.exc, msg |-> r.msg]

Parse ==
    /\ pc = "parse"
    /\ LET r == parse(tokens) IN
         /\ result' = Outcome(r)
         /\ tok_idx' = r.idx
         /\ entered' = r.entered
    /\ pc' = "parsed"
    /\ UNCHANGED <<text, pos, tokens, error, output>>

----------------------------------------------------------------------------
(* The Parser on its own: Parser(tokens) for every token sequence up to    *)
(* MaxToks over all ten kinds, and up to MaxDeepToks over the kinds that   *)
(* nest.                                                                   *)

ParserToks ==
    {TokenWith(TT_INT, 1), TokenWith(TT_FLOAT, <<5, 1>>), TokenWith(TT_IDENTIFIER, "x"),
     Token(TT_PLUS), Token(TT_MINUS), Token(TT_MUL), Token(TT_DIV),
     Token(TT_LPAREN), Token(TT_RPAREN), Token(TT_EQ)}

DeepToks ==
    {TokenWith(TT_INT, 1), Token(TT_PLUS), Token(TT_MUL), Token(TT_LPAREN), Token(TT_RPAREN)}

SeqsUpTo(S, n) == UNION {[1..k -> S] : k \in 0..n}

TokenSeqs == SeqsUpTo(ParserToks, MaxToks) \cup SeqsUpTo(DeepToks, MaxDeepToks)

InitParser ==
    /\ tokens \in TokenSeqs
    /\ tok_idx = 0
    /\ pc = "parse"
    /\ text = <<>>
    /\ pos = 0
    /\ error = None
    /\ result = None
    /\ entered = <<>>
    /\ output = ""

SpecParser == InitParser /\ [][Parse]_vars

----------------------------------------------------------------------------
(* run(text) and the read-eval-print loop *)

RECURSIVE lstrip(_)
lstrip(s) == IF s # <<>> /\ Head(s) \in {" ", "\t", "\n", "\r", "\f"} THEN lstrip(Tail(s)) ELSE s

RECURSIVE rstrip(_)
rstrip(s) ==
    IF s # <<>> /\ s[Len(s)] \in {" ", "\t", "\n", "\r", "\f"}
    THEN rstrip(SubSeq(s, 1, Len(s) - 1)) ELSE s

\* str.strip()
strip(s) == rstrip(lstrip(s))

\* str.lower() on ASCII text
lower(s) ==
    [k \in 1..Len(s) |->
        IF \E j \in 1..26 : UPPERCASE[j] = s[k]
        THEN LOWERCASE[CHOOSE j \in 1..26 : UPPERCASE[j] = s[k]]
        ELSE s[k]]

IsQuit(line) == lower(strip(line)) \in {<<"e", "x", "i", "t">>, <<"q", "u", "i", "t">>}

\* the lines typed at the prompt: every text up to MaxLine, and ways to leave
QuitLines == {<<"e", "x", "i", "t">>, <<"q", "u", "i", "t">>, <<" ", "E", "x", "i", "T", "\t">>}

Lines == Texts(MaxLine) \cup QuitLines

\* text = input("basic> ") followed by run(text) constructing Lexer(text)
ReadLine ==
    /\ pc = "prompt"
    /\ \E line \in Lines :
         /\ ~IsQuit(line)
         /\ text' = line
    /\ pos' = 0
    /\ tokens' = <<>>
    /\ error' = None
    /\ tok_idx' = 0
    /\ result' = None
    /\ entered' = <<>>
    /\ output' = ""
    /\ pc' = "lex"

\* text = input("basic> ") when the line asks to leave: break
Quit ==
    /\ pc = "prompt"
    /\ \E line \in Lines : IsQuit(line)
    /\ pc' = "exited"
    /\ UNCHANGED <<text, pos, tokens, error, tok_idx, result, entered, output>>

\* back at the prompt: the Lexer and Parser of run are gone, and text, result
\* and error of the loop are assigned again before they are next read
Forgotten ==
    /\ text' = <<>>
    /\ pos' = 0
    /\ tokens' = <<>>
    /\ error' = None
    /\ tok_idx' = 0
    /\ result' = None
    /\ entered' = <<>>

\* run returns (None, error) and the loop prints error.as_string()
ReportError ==
    /\ pc = "lexed"
    /\ error # None
    /\ output' = as_string(error)
    /\ pc' = "prompt"
    /\ Forgotten

\* run constructs Parser(tokens)
MakeParser ==
    /\ pc = "lexed"
    /\ error = None
    /\ tok_idx' = 0
    /\ pc' = "parse"
    /\ UNCHANGED <<text, pos, tokens, error, result, entered, output>>

\* run returns (ast, None) and the loop prints the tree under its header
\* (the drawing of the tree changes no state and is left out)
ShowTree ==
    /\ pc = "parsed"
    /\ result.st = "return"
    /\ output' = "Parse Tree:"
    /\ pc' = "prompt"
    /\ Forgotten

\* an exception raised by parse: neither run nor the loop has a handler,
\* so it leaves both and the interpreter stops
Uncaught ==
    /\ pc = "parsed"
    /\ result.st = "raise"
    /\ pc' = "crashed"
    /\ UNCHANGED <<text, pos, tokens, error, tok_idx, result, entered, output>>

Init ==
    /\ pc = "prompt"
    /\ text = <<>>
    /\ pos = 0
    /\ tokens = <<>>
    /\ error = None
    /\ tok_idx = 0
    /\ result = None
    /\ entered = <<>>
    /\ output = ""

Next ==
    \/ ReadLine
    \/ Quit
    \/ SkipWhitespace
    \/ ScanNumber
    \/ ScanIdentifier
    \/ ScanSymbol
    \/ ScanIllegal
    \/ ScanEnd
    \/ ReportError
    \/ MakeParser
    \/ Parse
    \/ ShowTree
    \/ Uncaught

Spec == Init /\ [][Next]_vars

----------------------------------------------------------------------------
(* Vocabulary of the properties *)

IsOperand(tok) == tok.type \in {TT_INT, TT_FLOAT, TT_IDENTIFIER}

Leaf(tok) == IF tok.type = TT_IDENTIFIER THEN VarAccessNode(tok) ELSE NumberNode(tok)

TypesOf(toks) == [k \in 1..Len(toks) |-> toks[k].type]

IsBin(n, ops) == n.kind = "BinOpNode" /\ n.op_tok.type \in ops

RECURSIVE NodesOf(_)
\* every node of the tree rooted at n
NodesOf(n) ==
    IF n.kind = "BinOpNode" THEN {n} \cup NodesOf(n.left_node) \cup NodesOf(n.right_node)
    ELSE IF n.kind = "VarAssignNode" THEN {n} \cup NodesOf(n.value_node)
    ELSE {n}

Returned(node) == [st |-> "return", node |-> node]

Raised(exc, msg) == [st |-> "raise", exc |-> exc, msg |-> msg]

StartsAssign(toks) ==
    Len(toks) >= 2 /\ toks[1].type = TT_IDENTIFIER /\ toks[2].type = TT_EQ

----------------------------------------------------------------------------
(* Parser properties, stated for SpecParser *)

\* C1: a token sequence that starts with an Identifier not followed by Eq is
\* parsed as an ordinary expression: parse ends exactly as expr started at
\* token index 0 ends, the identifier being the leftmost leaf of the AST.
C1_LeadingIdentifierStartsExpr ==
    (pc = "parsed" /\ Len(tokens) >= 1 /\ tokens[1].type = TT_IDENTIFIER
        /\ ~StartsAssign(tokens))
    => LET e == expr(tokens, 0, <<>>) IN
       result = Outcome(e) /\ tok_idx = e.idx

IsChain(toks, ops) ==
    /\ Len(toks) >= 3
    /\ Len(toks) % 2 = 1
    /\ \A k \in 1..Len(toks) :
         IF k % 2 = 1 THEN IsOperand(toks[k]) ELSE toks[k].type \in ops

RECURSIVE LeftNested(_, _)
\* the left-nested tree of the first n tokens of a chain
LeftNested(toks, n) ==
    IF n = 1 THEN Leaf(toks[1])
    ELSE BinOpNode(LeftNested(toks, n - 2), toks[n - 1], Leaf(toks[n]))

\* C3: a chain of operands joined by operators of one precedence level is
\* returned as the left-nested tree: root op_n, right child operand_{n+1},
\* left child the tree of the first n operands.
C3_ChainIsLeftNested ==
    (pc = "parsed"
        /\ (IsChain(tokens, {TT_PLUS, TT_MINUS}) \/ IsChain(tokens, {TT_MUL, TT_DIV})))
    => result = Returned(LeftNested(tokens, Len(tokens)))

\* the same for the chains whose first operand is a number (they do not enter
\* the Identifier branch of statement)
ChainFromNumberIsLeftNested ==
    (pc = "parsed" /\ tokens # <<>> /\ tokens[1].type # TT_IDENTIFIER
        /\ (IsChain(tokens, {TT_PLUS, TT_MINUS}) \/ IsChain(tokens, {TT_MUL, TT_DIV})))
    => result = Returned(LeftNested(tokens, Len(tokens)))

HasParens(toks) == \E k \in 1..Len(toks) : toks[k].type \in {TT_LPAREN, TT_RPAREN}

\* a Mul/Div node with a Plus/Minus node as a child
LowUnderHigh(n) ==
    /\ IsBin(n, {TT_MUL, TT_DIV})
    /\ \/ IsBin(n.left_node, {TT_PLUS, TT_MINUS})
       \/ IsBin(n.right_node, {TT_PLUS, TT_MINUS})

\* toks has LParen ... Plus|Minus ... RParen
EnclosesSum(toks) ==
    \E i, j \in 1..Len(toks) :
        /\ i < j
        /\ toks[i].type = TT_LPAREN
        /\ toks[j].type = TT_RPAREN
        /\ \E k \in (i + 1)..(j - 1) : toks[k].type \in {TT_PLUS, TT_MINUS}

\* C4: in a returned AST no Mul/Div node has a Plus/Minus node as a child
\* unless the tokens enclose a sum in parentheses; number + number * number
\* gives Plus with the Mul node on the right, (number + number) * number
\* gives Mul with the Plus node on the left.
C4_Precedence ==
    (pc = "parsed" /\ result.st = "return")
    => /\ ~HasParens(tokens) => \A n \in NodesOf(result.node) : ~LowUnderHigh(n)
       /\ (\E n \in NodesOf(result.node) : LowUnderHigh(n)) => EnclosesSum(tokens)
       /\ TypesOf(tokens) = <<TT_INT, TT_PLUS, TT_INT, TT_MUL, TT_INT>>
            => result.node = BinOpNode(NumberNode(tokens[1]), tokens[2],
                                 BinOpNode(NumberNode(tokens[3]), tokens[4],
                                           NumberNode(tokens[5])))
       /\ TypesOf(tokens) = <<TT_LPAREN, TT_INT, TT_PLUS, TT_INT, TT_RPAREN, TT_MUL, TT_INT>>
            => result.node = BinOpNode(BinOpNode(NumberNode(tokens[2]), tokens[3],
                                                 NumberNode(tokens[4])),
                                       tokens[6], NumberNode(tokens[7]))

C4_Witness ==
    /\ pc = "parsed"
    /\ result.st = "return"
    /\ ~HasParens(tokens)
    /\ IsBin(result.node, {TT_PLUS, TT_MINUS})
    /\ IsBin(result.node.right_node, {TT_MUL, TT_DIV})

\* C5: Identifier Eq T, with T a sequence expr parses, gives the
\* VarAssignNode of that identifier and of the AST expr returns for T; a
\* VarAssignNode is returned only for tokens that start Identifier Eq, and
\* only as the root (no assignment below it).
C5_Assignment ==
    pc = "parsed"
    => /\ StartsAssign(tokens)
            => LET e == expr(SubSeq(tokens, 3, Len(tokens)), 0, <<>>) IN
               e.st = "return"
               => /\ result = Returned(VarAssignNode(tokens[1], e.node))
                  /\ tok_idx = e.idx + 2
       /\ result.st = "return"
            => /\ result.node.kind = "VarAssignNode" => StartsAssign(tokens)
               /\ \A n \in NodesOf(result.node) :
                     n.kind = "VarAssignNode" => n = result.node

C5_Witness ==
    /\ pc = "parsed"
    /\ StartsAssign(tokens)
    /\ result.st = "return"
    /\ result.node.kind = "VarAssignNode"
    /\ result.node.value_node.kind = "BinOpNode"

\* factor was entered at cursor j on an LParen, its inner expr returned, and
\* the token then under the cursor is not an RParen
UnclosedAt(toks, j) ==
    /\ j < Len(toks)
    /\ toks[j + 1].type = TT_LPAREN
    /\ LET e == expr(toks, j + 1, <<>>) IN
         /\ e.st = "return"
         /\ \/ current_tok_at(toks, e.idx) = None
            \/ current_tok_at(toks, e.idx).type # TT_RPAREN

\* C6: whenever factor has consumed an LParen, its inner expr has returned
\* and the current token is not an RParen, parse ends with the
\* "Expected ')'" failure, which is not an unexpected-token failure, with the
\* cursor on the token that should have been the RParen, and returns no AST.
C6_MissingRParen ==
    pc = "parsed"
    => \A k \in 1..Len(entered) :
          UnclosedAt(tokens, entered[k])
          => /\ result = Raised("Exception", EXPECTED_RPAREN)
             /\ tok_idx = expr(tokens, entered[k] + 1, <<>>).idx
             /\ \A t \in ParserToks : result.msg # UnexpectedToken(t)

C6_Witness ==
    /\ pc = "parsed"
    /\ \E k \in 1..Len(entered) : UnclosedAt(tokens, entered[k])
    /\ result.st = "raise"
    /\ tok_idx = Len(tokens)

\* C7: for a non-empty token sequence parse ends by returning an AST or by
\* raising a syntax failure, and whenever factor was entered on anything
\* other than Int, Float, Identifier or LParen (no token left included) it
\* ends with the syntax failure about the unexpected token.
C7_OnlySyntaxFailures ==
    (pc = "parsed" /\ tokens # <<>>)
    => /\ \/ result.st = "return"
          \/ result.st = "raise" /\ result.exc = "Exception"
       /\ \A k \in 1..Len(entered) :
             LET tok == current_tok_at(tokens, entered[k]) IN
             (tok = None \/ tok.type \notin {TT_INT, TT_FLOAT, TT_IDENTIFIER, TT_LPAREN})
             => /\ result.st = "raise"
                /\ result.exc = "Exception"
                /\ result.msg # EXPECTED_RPAREN

\* statement := Identifier Eq expr | expr, the second alternative read from
\* the first token on
StatementOf(toks) ==
    IF StartsAssign(toks)
    THEN LET e == expr(toks, 2, <<>>) IN
         IF e.st = "raise" THEN e
         ELSE Return(VarAssignNode(toks[1], e.node), e.idx, e.entered)
    ELSE expr(toks, 0, <<>>)

\* C10: when a proper prefix of the tokens forms a complete statement and the
\* token after it is not one a bin_op loop accepts, parse returns the AST of
\* that prefix, raises nothing and leaves the cursor on that token, whatever
\* the remaining tokens are.
C10_TrailingTokensIgnored ==
    pc = "parsed"
    => \A n \in 1..(Len(tokens) - 1) :
          LET p == StatementOf(SubSeq(tokens, 1, n)) IN
          (p.st = "return" /\ p.idx = n
              /\ tokens[n + 1].type \notin {TT_PLUS, TT_MINUS, TT_MUL, TT_DIV})
          => result = Outcome(p) /\ tok_idx = n

\* the same for the prefixes that parse itself returns a statement for (which
\* leaves out the prefixes that start with an Identifier not followed by Eq)
TrailingTokensIgnoredAfterParse ==
    pc = "parsed"
    => \A n \in 1..(Len(tokens) - 1) :
          LET p == parse(SubSeq(tokens, 1, n)) IN
          (p.st = "return" /\ p.idx = n
              /\ tokens[n + 1].type \notin {TT_PLUS, TT_MINUS, TT_MUL, TT_DIV})
          => result = Outcome(p) /\ tok_idx = n

----------------------------------------------------------------------------
(* Lexer properties, stated for SpecLexer *)

\* the '.' at offset p closes a run of digits that starts a number
DotInNumber(txt, p) ==
    \E s \in 0..(p - 1) :
        /\ \A k \in s..(p - 1) : txt[k + 1] \in DIGITS
        /\ s = 0 \/ txt[s] \notin DIGITS \cup LETTERS \cup {"."}

\* the character at offset p is one make_tokens has no branch for
IllegalAt(txt, p) ==
    \/ txt[p + 1] \notin WHITESPACE \cup DIGITS \cup LETTERS \cup SYMBOLS \cup {"."}
    \/ txt[p + 1] = "." /\ ~DotInNumber(txt, p)

HasIllegal(txt) == \E p \in 0..(Len(txt) - 1) : IllegalAt(txt, p)

FirstIllegal(txt) ==
    CHOOSE p \in 0..(Len(txt) - 1) :
        IllegalAt(txt, p) /\ \A q \in 0..(p - 1) : ~IllegalAt(txt, q)

\* C2: for a text with a character outside whitespace, digits, letters and
\* + - * / = ( ), make_tokens returns no token at all and the
\* IllegalCharError of the first such character: its offset and its name.
C2_IllegalCharAborts ==
    (pc = "lexed" /\ HasIllegal(text))
    => /\ tokens = <<>>
       /\ error = IllegalCharError(FirstIllegal(text), text[FirstIllegal(text) + 1])

C2_Witness ==
    /\ pc = "lexed"
    /\ error # None
    /\ error.pos >= 2
    /\ text[1] \in DIGITS \cup LETTERS \cup SYMBOLS
    /\ text[2] \in DIGITS \cup LETTERS \cup SYMBOLS \cup WHITESPACE
    /\ tokens = <<>>

DotsIn(s) == Cardinality({k \in 1..Len(s) : s[k] = "."})

\* C9: a step of make_tokens on a digit appends exactly one token for a run
\* of digits with at most one '.', Int without a '.' and Float with one, and
\* stops on the first character that is neither a digit nor a first '.';
\* a step with the cursor on a '.' (where a second '.' leaves it) returns no
\* token and the IllegalCharError of that offset.
C9_NumberStep ==
    /\ (pc = "lex" /\ current_char \in DIGITS)
       => LET run == SubSeq(text, pos + 1, pos') IN
          /\ pc' = "lex"
          /\ pos' > pos
          /\ \A k \in 1..Len(run) : run[k] \in DIGITS \cup {"."}
          /\ DotsIn(run) <= 1
          /\ Len(tokens') = Len(tokens) + 1
          /\ SubSeq(tokens', 1, Len(tokens)) = tokens
          /\ tokens'[Len(tokens')].type = (IF DotsIn(run) = 0 THEN TT_INT ELSE TT_FLOAT)
          /\ current_char_at(text, pos') \notin DIGITS
          /\ current_char_at(text, pos') = "." => DotsIn(run) = 1
    /\ (pc = "lex" /\ current_char = ".")
       => /\ pc' = "lexed"
          /\ tokens' = <<>>
          /\ error' = IllegalCharError(pos, ".")

C9_OneDecimalPoint == [][C9_NumberStep]_vars

C9_Witness ==
    /\ pc = "lexed"
    /\ error # None
    /\ error.pos >= 2
    /\ text[1] \in DIGITS
    /\ text[error.pos + 1] = "."
    /\ \A k \in 1..error.pos : text[k] \in DIGITS \cup {"."}
    /\ DotsIn(SubSeq(text, 1, error.pos)) = 1
    /\ tokens = <<>>

----------------------------------------------------------------------------
(* Driver property, stated for Spec *)

\* C8: an IllegalCharError and a syntax failure alike abort only the line
\* that caused them: the driver loop is never taken down by a failed line.
C8_FailedLineLeavesLoopRunning == pc # "crashed"

=============================================================================
